---- MODULE Spec2Model ----
(***************************************************************************)
(* The EdgeDB IR node algebra (edb/lang/ir/ast.py) as a state machine.     *)
(*                                                                         *)
(* The state is an arena of IR nodes (heap: a node's identity is its index *)
(* in the arena), the outcome of the last operation (result) and a scope   *)
(* tree (regions).  Operations are node constructions, attribute           *)
(* assignments and reads, and the scope tree's consumed operations.        *)
(***************************************************************************)
EXTENDS Integers, Sequences, FiniteSets, TLC

VARIABLES heap, result, regions

vars == <<heap, result, regions>>

\* ------------------------------------------------------------------ bounds

MaxConstNodes == 2
MaxPointerNodes == 3
MaxGraphNodes == 3
MaxFuncNodes == 3
MaxArgs == 2
MaxStmtNodes == 3
MaxSetOpNodes == 3
MaxCmpNodes == 4
MaxRegions == 3
MaxScopeId == 2

\* ------------------------------------------------------------ Python values

\* Python's None, for string- and enum-valued fields.
None == "None"

\* The null reference: None in a node-typed field.  Node identities are 1..Len(heap).
NoneRef == 0

\* An optional keyword argument: <<>> when the caller omits it, <<v>> when it passes v.
Opt(S) == {<<>>} \cup {<<v>> : v \in S}

\* The keyword arguments of one call: the arguments passed, by name.
Arg(name, o) == IF o = <<>> THEN <<>> ELSE (name :> o[1])

\* An operation's outcome: a node, or a raised exception.
Ok(node) == [ok |-> TRUE, error |-> "none", node |-> node]

Raise(exc) == [ok |-> FALSE, error |-> exc]

\* A construction of a Set that also points its rptr's target back at the new Set.
Alloc_LinkTarget(h, outcome) ==
    IF ~outcome.ok THEN h
    ELSE LET n == Len(h) + 1
             h2 == Append(h, outcome.node)
         IN  IF outcome.node.kind = "Set" /\ outcome.node.rptr # NoneRef
             THEN [h2 EXCEPT ![outcome.node.rptr].target = n]
             ELSE h2

\* A construction of a statement that also registers it with its parent_stmt.
Alloc_RegisterChild(h, outcome) ==
    IF ~outcome.ok THEN h
    ELSE LET n == Len(h) + 1
             h2 == Append(h, outcome.node)
         IN  IF outcome.node.kind = "SelectStmt" /\ outcome.node.parent_stmt # NoneRef
             THEN [h2 EXCEPT ![outcome.node.parent_stmt].iterator_stmt = n]
             ELSE h2

\* A successful construction yields a new node (a new identity); a raising one yields none.
Alloc(h, outcome) == IF outcome.ok THEN Append(h, outcome.node) ELSE h

NodeOf(h, outcome) == IF outcome.ok THEN Len(h) + 1 ELSE NoneRef

\* The generic node constructor inherited from ast.AST: every declared field is
\* set from the keyword argument of its name, or to its declared default.
AST_init(defaults, kwargs) ==
    [f \in DOMAIN defaults |-> IF f \in DOMAIN kwargs THEN kwargs[f] ELSE defaults[f]]

\* ------------------------------------------------------------------- Base

\* No field hidden: context takes part in comparison like any other field.
NoHidden == {}

\* Base.__ast_hidden__: the fields structural comparison and dumps leave out.
Base_ast_hidden == {"context"}

Contexts == {"ctx1", "ctx2"}

\* -------------------------------------------------------------- constants

ConstantKinds ==
    {"StringConstant", "RawStringConstant", "IntegerConstant",
     "FloatConstant", "BooleanConstant", "BytesConstant"}

ConstValues == {"42", "abc"}

Stypes == {"std::int64", "std::str"}

BaseConstant_fields(kind) ==
    [kind |-> kind, context |-> None, value |-> None, stype |-> None]

\* A constructor that forgets the check of value.
BaseConstant_init_NoValueCheck(kind, kwargs) ==
    IF "stype" \notin DOMAIN kwargs
    THEN Raise("TypeError: missing keyword-only argument 'stype'")
    ELSE LET self == AST_init(BaseConstant_fields(kind), kwargs)
         IN  IF self.stype = None
             THEN Raise("ValueError: cannot create irast.Constant without a type")
             ELSE Ok(self)

\* BaseConstant.__init__(self, *args, stype, **kwargs)
BaseConstant_init(kind, kwargs) ==
    IF "stype" \notin DOMAIN kwargs
    THEN Raise("TypeError: missing keyword-only argument 'stype'")
    ELSE LET self == AST_init(BaseConstant_fields(kind), kwargs)
         IN  IF self.stype = None
             THEN Raise("ValueError: cannot create irast.Constant without a type")
             ELSE IF self.value = None
                  THEN Raise("ValueError: cannot create irast.Constant without a value")
                  ELSE Ok(self)

\* ---------------------------------------------------------------- Pointer

Directions == {"Outbound", "Inbound"}

Pointer_fields ==
    [kind |-> "Pointer", context |-> None, source |-> NoneRef, target |-> NoneRef,
     ptrcls |-> None, direction |-> None, anchor |-> None, show_as_anchor |-> None]

Pointer_init(kwargs) == Ok(AST_init(Pointer_fields, kwargs))

\* A stored flag in place of the comparison.
Pointer_is_inbound_Outbound(self) == self.direction = "Outbound"

\* Pointer.is_inbound (a read-only property)
Pointer_is_inbound(self) == self.direction = "Inbound"

\* Assignment to an attribute of a Pointer: is_inbound is a property with no
\* setter, every declared field is stored.
Pointer_setattr(self, name, value) ==
    IF name = "is_inbound"
    THEN Raise("AttributeError: can't set attribute")
    ELSE Ok([self EXCEPT ![name] = value])

\* ------------------------------------------------- Set, Stmt: the node graph

Set_fields ==
    [kind |-> "Set", context |-> None, path_id |-> None, path_scope_id |-> NoneRef,
     stype |-> None, source |-> NoneRef, view_source |-> NoneRef, expr |-> NoneRef,
     rptr |-> NoneRef, anchor |-> None, show_as_anchor |-> None, shape |-> <<>>]

\* Set declares no constructor of its own: the inherited one stores what it is given.
Set_init(kwargs) == Ok(AST_init(Set_fields, kwargs))

SelectStmt_fields ==
    [kind |-> "SelectStmt", context |-> None, name |-> None, result |-> NoneRef,
     cardinality |-> None, parent_stmt |-> NoneRef, iterator_stmt |-> NoneRef,
     where |-> NoneRef, orderby |-> <<>>, offset |-> NoneRef, limit |-> NoneRef]

SelectStmt_init(kwargs) == Ok(AST_init(SelectStmt_fields, kwargs))

\* Assignment to a declared field of a node that defines no property of that name.
Node_setattr(self, name, value) == Ok([self EXCEPT ![name] = value])

Range(s) == {s[k] : k \in 1..Len(s)}

\* The nodes a node's node-typed fields refer to.
NodeRefs(node) ==
    (CASE node.kind = "Set" ->
              {node.source, node.view_source, node.expr, node.rptr} \cup Range(node.shape)
       [] node.kind = "Pointer" -> {node.source, node.target}
       [] node.kind = "SelectStmt" ->
              {node.result, node.parent_stmt, node.iterator_stmt, node.where,
               node.offset, node.limit} \cup Range(node.orderby)
       [] OTHER -> {}) \ {NoneRef}

Edges(h) == {e \in (1..Len(h)) \X (1..Len(h)) : e[2] \in NodeRefs(h[e[1]])}

\* The nodes reachable from i by following one or more node-typed fields.
RECURSIVE ReachFrom(_, _, _)
ReachFrom(h, frontier, seen) ==
    LET next == {e[2] : e \in {d \in Edges(h) : d[1] \in frontier}} \ seen
    IN  IF next = {} THEN seen ELSE ReachFrom(h, next, seen \cup next)

Reachable(h, i) == ReachFrom(h, {i}, {})

Acyclic(h) == \A i \in 1..Len(h) : i \notin Reachable(h, i)

Parents(h, i) == {p \in 1..Len(h) : i \in NodeRefs(h[p])}

OfKind(h, kind) == {i \in 1..Len(h) : h[i].kind = kind}

\* ----------------------------------------------------------- FunctionCall

TypeModifiers == {"SINGLETON", "SET OF"}

FunctionCall_fields ==
    [kind |-> "FunctionCall", context |-> None, func_polymorphic |-> None,
     func_shortname |-> None, func_sql_function |-> None,
     func_initial_value |-> NoneRef, args |-> <<>>, params_typemods |-> <<>>,
     has_empty_variadic |-> FALSE, variadic_param_type |-> None, stype |-> None,
     typemod |-> None, agg_sort |-> <<>>, agg_filter |-> NoneRef,
     agg_set_modifier |-> None, partition |-> <<>>, window |-> None]

\* FunctionCall declares no constructor of its own.
FunctionCall_init(kwargs) == Ok(AST_init(FunctionCall_fields, kwargs))

SeqsUpTo(S, n) == UNION {[1..k -> S] : k \in 0..n}

\* ------------------------------------------------------------------ SetOp

\* The cardinality lattice: ONE below AT_MOST_ONE and AT_LEAST_ONE, MANY on top.
Cardinalities == {"ONE", "AT_MOST_ONE", "AT_LEAST_ONE", "MANY"}

CardLeq(a, b) == a = b \/ a = "ONE" \/ b = "MANY"

\* The lattice join: the least cardinality above both.
CardJoin(a, b) ==
    CHOOSE c \in Cardinalities :
        /\ CardLeq(a, c) /\ CardLeq(b, c)
        /\ \A d \in Cardinalities : (CardLeq(a, d) /\ CardLeq(b, d)) => CardLeq(c, d)

SetOp_fields ==
    [kind |-> "SetOp", context |-> None, left |-> NoneRef, right |-> NoneRef,
     op |-> None, exclusive |-> FALSE, left_card |-> None, right_card |-> None]

\* SetOp declares no constructor of its own.
SetOp_init(kwargs) == Ok(AST_init(SetOp_fields, kwargs))

\* ---------------------------------------------------------------- UnaryOp

UnaryOp_fields == [kind |-> "UnaryOp", context |-> None, expr |-> NoneRef, op |-> None]

UnaryOp_init(kwargs) == Ok(AST_init(UnaryOp_fields, kwargs))

\* The fields of a node that hold nodes.
NodeTyped == {"source", "target", "view_source", "expr", "rptr", "left", "right"}

\* Structural comparison of two nodes: same kind, and every field that is not
\* hidden equal, node-typed fields compared structurally in turn.
RECURSIVE nodes_equal(_, _, _)
nodes_equal(h, i, j) ==
    IF i = NoneRef \/ j = NoneRef THEN i = j
    ELSE /\ h[i].kind = h[j].kind
         /\ \A f \in (DOMAIN h[i]) \ Base_ast_hidden :
                IF f \in NodeTyped THEN nodes_equal(h, h[i][f], h[j][f])
                ELSE h[i][f] = h[j][f]

\* The arena with every node's context erased.
EraseContext(h) == [i \in 1..Len(h) |-> [h[i] EXCEPT !.context = None]]

\* ------------------------------------------------------------- scope tree

PathIds == {"User", "User.todo"}

\* ScopeTreeNode(fenced=...) attached under a parent region.
attach_child(tree, parent, fenced) ==
    Append(tree, [parent |-> parent, fenced |-> fenced, paths |-> {}])

\* register path under region
attach_path(tree, r, path) == [tree EXCEPT ![r].paths = @ \cup {path}]

\* mark region fenced
mark_fenced(tree, r) == [tree EXCEPT ![r].fenced = TRUE]

RECURSIVE AncestorsOrSelf(_, _)
AncestorsOrSelf(tree, r) ==
    IF r = NoneRef THEN {} ELSE {r} \cup AncestorsOrSelf(tree, tree[r].parent)

\* The regions of the subtree rooted at g.
Subtree(tree, g) == {r \in 1..Len(tree) : g \in AncestorsOrSelf(tree, r)}

\* a sees what is attached to q when q is a itself, or lies below a with no
\* fence on the way down from a to q (q included).
Exposed(tree, a, q) ==
    /\ a \in AncestorsOrSelf(tree, q)
    /\ \A m \in AncestorsOrSelf(tree, q) \ AncestorsOrSelf(tree, a) : ~tree[m].fenced

\* Visibility with the fences ignored.
is_visible_NoFence(tree, r, path) ==
    \E q \in 1..Len(tree) : path \in tree[q].paths

\* resolve path visibility from region: walk up from r; at each region on the
\* way the path is found if it is attached there or exposed from below.
is_visible(tree, r, path) ==
    \E a \in AncestorsOrSelf(tree, r), q \in 1..Len(tree) :
        path \in tree[q].paths /\ Exposed(tree, a, q)

resolve_path(tree, r, path) ==
    IF is_visible(tree, r, path) THEN [ok |-> TRUE, error |-> "none"]
    ELSE Raise("InvalidScopeConfiguration")

\* -------------------------------------------------------------- Statement

ViewTypes == {"T1", "T2"}

Statement_fields ==
    [kind |-> "Statement", context |-> None, expr |-> NoneRef, views |-> <<>>,
     params |-> <<>>, cardinality |-> None, stype |-> None, view_shapes |-> <<>>,
     schema |-> None, scope_tree |-> <<>>, scope_map |-> <<>>, source_map |-> <<>>]

\* Statement declares no constructor of its own.
Statement_init(kwargs) == Ok(AST_init(Statement_fields, kwargs))

\* path_scope_id resolves to the node of the tree with that id.
ScopeIds(tree) == 1..Len(tree)

\* ------------------------------------------------------------------- Init

\* new_scope_tree(): a single fenced root region.
new_scope_tree == <<[parent |-> NoneRef, fenced |-> TRUE, paths |-> {}]>>

Init ==
    /\ heap = <<>>
    /\ result = [op |-> "init"]
    /\ regions = new_scope_tree

\* -------------------------------------------------- constants: operations

NewConstant ==
    \E kind \in ConstantKinds, v \in Opt(ConstValues \cup {None}),
       s \in Opt(Stypes \cup {None}) :
        LET kwargs == Arg("value", v) @@ Arg("stype", s)
            out == BaseConstant_init(kind, kwargs)
        IN  /\ Len(heap) < MaxConstNodes
            /\ heap' = Alloc(heap, out)
            /\ result' = [op |-> "NewConstant", kind |-> kind, kwargs |-> kwargs,
                          error |-> out.error, node |-> NodeOf(heap, out),
                          before |-> Len(heap)]
            /\ UNCHANGED regions

NextConst == NewConstant

SpecConst == Init /\ [][NextConst]_vars

\* C1: a constant construction that omits value or stype, or passes None for
\* it, raises and yields no node; one that supplies both yields a node whose
\* value and stype are the values supplied.
C1_ConstantConstruction ==
    result.op = "NewConstant" =>
        LET kw == result.kwargs
            missing(f) == f \notin DOMAIN kw \/ kw[f] = None
        IN  IF missing("value") \/ missing("stype")
            THEN /\ result.error # "none"
                 /\ result.node = NoneRef
                 /\ Len(heap) = result.before
            ELSE /\ result.error = "none"
                 /\ result.node = result.before + 1
                 /\ Len(heap) = result.before + 1
                 /\ heap[result.node].kind = result.kind
                 /\ heap[result.node].value = kw.value
                 /\ heap[result.node].stype = kw.stype

\* An IntegerConstant built with value "42" and a type, after a construction
\* without a value was refused.
C1_Witness ==
    /\ result.op = "NewConstant"
    /\ result.kind = "IntegerConstant"
    /\ result.error = "none"
    /\ result.node = 2
    /\ heap[2].value = "42"
    /\ heap[2].stype = "std::int64"

\* ---------------------------------------------------- Pointer: operations

NewPointer ==
    \E d \in Opt(Directions) :
        LET out == Pointer_init(Arg("direction", d))
        IN  /\ Len(heap) < MaxPointerNodes
            /\ heap' = Alloc(heap, out)
            /\ result' = [op |-> "NewPointer", error |-> out.error,
                          node |-> NodeOf(heap, out)]
            /\ UNCHANGED regions

\* ptr.direction = d
AssignDirection ==
    \E i \in 1..Len(heap), d \in Directions \cup {None} :
        LET out == Pointer_setattr(heap[i], "direction", d)
        IN  /\ heap[i].kind = "Pointer"
            /\ heap' = IF out.ok THEN [heap EXCEPT ![i] = out.node] ELSE heap
            /\ result' = [op |-> "AssignDirection", error |-> out.error, node |-> i]
            /\ UNCHANGED regions

\* ptr.is_inbound = b
AssignIsInbound ==
    \E i \in 1..Len(heap), b \in BOOLEAN :
        LET out == Pointer_setattr(heap[i], "is_inbound", b)
        IN  /\ heap[i].kind = "Pointer"
            /\ heap' = IF out.ok THEN [heap EXCEPT ![i] = out.node] ELSE heap
            /\ result' = [op |-> "AssignIsInbound", error |-> out.error, node |-> i,
                          value |-> b]
            /\ UNCHANGED regions

\* the read ptr.is_inbound
ReadIsInbound ==
    \E i \in 1..Len(heap) :
        /\ heap[i].kind = "Pointer"
        /\ result' = [op |-> "ReadIsInbound", error |-> "none", node |-> i,
                      value |-> Pointer_is_inbound(heap[i])]
        /\ UNCHANGED <<heap, regions>>

NextPointer == NewPointer \/ AssignDirection \/ AssignIsInbound \/ ReadIsInbound

SpecPointer == Init /\ [][NextPointer]_vars

\* C2: whatever has been assigned, a read of is_inbound gives TRUE exactly when
\* direction is Inbound, and an assignment to is_inbound is refused and leaves
\* the answer that of direction.
C2_IsInboundDerived ==
    /\ result.op = "ReadIsInbound" =>
           (result.value <=> heap[result.node].direction = "Inbound")
    /\ result.op = "AssignIsInbound" =>
           /\ result.error # "none"
           /\ Pointer_is_inbound(heap[result.node])
                  <=> heap[result.node].direction = "Inbound"

\* A pointer built Outbound, reassigned Inbound, reads is_inbound as TRUE.
C2_Witness ==
    /\ result.op = "ReadIsInbound"
    /\ result.value = TRUE
    /\ heap[result.node].direction = "Inbound"

\* --------------------------------------------------- node graph: operations

GraphNewSet ==
    \E e \in Opt(1..Len(heap)), r \in Opt(OfKind(heap, "Pointer")) :
        LET out == Set_init(Arg("expr", e) @@ Arg("rptr", r))
        IN  /\ Len(heap) < MaxGraphNodes
            /\ heap' = Alloc(heap, out)
            /\ result' = [op |-> "NewSet", error |-> out.error, node |-> NodeOf(heap, out)]
            /\ UNCHANGED regions

GraphNewPointer ==
    \E s \in Opt(OfKind(heap, "Set")), t \in Opt(OfKind(heap, "Set")) :
        LET out == Pointer_init(Arg("source", s) @@ Arg("target", t))
        IN  /\ Len(heap) < MaxGraphNodes
            /\ heap' = Alloc(heap, out)
            /\ result' = [op |-> "NewPointer", error |-> out.error,
                          node |-> NodeOf(heap, out)]
            /\ UNCHANGED regions

GraphNewSelectStmt ==
    \E r \in Opt(OfKind(heap, "Set")), p \in Opt(OfKind(heap, "SelectStmt")) :
        LET out == SelectStmt_init(Arg("result", r) @@ Arg("parent_stmt", p))
        IN  /\ Len(heap) < MaxGraphNodes
            /\ heap' = Alloc(heap, out)
            /\ result' = [op |-> "NewSelectStmt", error |-> out.error,
                          node |-> NodeOf(heap, out)]
            /\ UNCHANGED regions

\* set.rptr = ptr, ptr.target = set, stmt.parent_stmt = stmt: a field of an
\* existing node assigned after its construction.
GraphAssign ==
    \E i \in 1..Len(heap), j \in 1..Len(heap) :
        LET name == CASE heap[i].kind = "Set" -> "rptr"
                      [] heap[i].kind = "Pointer" -> "target"
                      [] OTHER -> "parent_stmt"
            typ == CASE heap[i].kind = "Set" -> "Pointer"
                     [] heap[i].kind = "Pointer" -> "Set"
                     [] OTHER -> "SelectStmt"
            out == Node_setattr(heap[i], name, j)
        IN  /\ heap[j].kind = typ
            /\ heap' = [heap EXCEPT ![i] = out.node]
            /\ result' = [op |-> "Assign", error |-> out.error, node |-> i]
            /\ UNCHANGED regions

NextGraph == GraphNewSet \/ GraphNewPointer \/ GraphNewSelectStmt \/ GraphAssign

SpecGraph == Init /\ [][NextGraph]_vars

\* C3 (as claimed): no construction of a Set yields a node with both expr and
\* rptr populated, and a Set built with neither has both null.
C3_SetExprXorRptr ==
    result.op = "NewSet" =>
        ~(heap[result.node].expr # NoneRef /\ heap[result.node].rptr # NoneRef)

\* C9 (as claimed): following node-typed fields from a Set never leads back to it.
C9_AlwaysAcyclic == \A i \in OfKind(heap, "Set") : i \notin Reachable(heap, i)

\* C9 (amended): a construction links the new node only to nodes that already
\* exist, so no construction closes a cycle; only an assignment to a field of an
\* existing node can.
C9_ConstructionKeepsAcyclic ==
    [][(Len(heap') > Len(heap) /\ Acyclic(heap)) =>
           /\ Acyclic(heap')
           /\ Len(heap') \notin Reachable(heap', Len(heap'))]_vars

\* A Set referenced from two parents, in a graph without a cycle.
C9_Witness ==
    /\ result.op = "NewPointer"
    /\ Acyclic(heap)
    /\ \E i \in OfKind(heap, "Set") : Cardinality(Parents(heap, i)) >= 2

\* C10 (as claimed): once a node is referenced from another node, no step changes it.
C10_LinkedNeverChanges ==
    [][\A i \in 1..Len(heap) : Parents(heap, i) # {} => heap'[i] = heap[i]]_vars

\* C10 (amended): a node is constructed from nodes that already exist, and a
\* construction (a replacement node included) leaves every existing node as it was.
C10_ConstructionLeavesNodes ==
    [][Len(heap') > Len(heap) =>
           /\ Len(heap') = Len(heap) + 1
           /\ NodeRefs(heap'[Len(heap')]) \subseteq 1..Len(heap)
           /\ \A i \in 1..Len(heap) : heap'[i] = heap[i]]_vars

\* A replacement Set built for an already linked Set: both are in the arena,
\* the original still linked from its parent.
C10_Witness ==
    /\ Len(heap) = 3
    /\ heap[1].kind = "Set"
    /\ heap[2].kind = "Pointer" /\ heap[2].source = 1
    /\ heap[3].kind = "Set" /\ heap[3].rptr = 2
    /\ result.op = "NewSet"

\* ------------------------------------------------- FunctionCall: operations

\* An argument expression: a Set with no fields given.
FuncNewSet ==
    LET out == Set_init(<<>>)
    IN  /\ Len(heap) < MaxFuncNodes
        /\ heap' = Alloc(heap, out)
        /\ result' = [op |-> "NewSet", error |-> out.error, node |-> NodeOf(heap, out)]
        /\ UNCHANGED regions

NewFunctionCall ==
    \E a \in Opt(SeqsUpTo(1..Len(heap), MaxArgs)),
       t \in Opt(SeqsUpTo(TypeModifiers, MaxArgs)) :
        LET kwargs == Arg("args", a) @@ Arg("params_typemods", t)
            out == FunctionCall_init(kwargs)
        IN  /\ Len(heap) < MaxFuncNodes
            /\ heap' = Alloc(heap, out)
            /\ result' = [op |-> "NewFunctionCall", kwargs |-> kwargs,
                          error |-> out.error, node |-> NodeOf(heap, out)]
            /\ UNCHANGED regions

NextFunc == FuncNewSet \/ NewFunctionCall

SpecFunc == Init /\ [][NextFunc]_vars

\* C4 (as claimed): every FunctionCall node has as many params_typemods as
\* args, and a construction with lists of different lengths raises ASTError
\* and yields no node.
C4_ArgsMatchTypemods ==
    /\ \A i \in OfKind(heap, "FunctionCall") :
           Len(heap[i].args) = Len(heap[i].params_typemods)
    /\ result.op = "NewFunctionCall" =>
           LET given(f) == IF f \in DOMAIN result.kwargs THEN result.kwargs[f] ELSE <<>>
           IN  Len(given("args")) # Len(given("params_typemods")) =>
                   (result.error = "ASTError" /\ result.node = NoneRef)

\* -------------------------------------------------------- SetOp: operations

SetOpNewSet ==
    LET out == Set_init(<<>>)
    IN  /\ Len(heap) < MaxSetOpNodes
        /\ heap' = Alloc(heap, out)
        /\ result' = [op |-> "NewSet", error |-> out.error, node |-> NodeOf(heap, out)]
        /\ UNCHANGED regions

NewSetOp ==
    \E l \in OfKind(heap, "Set"), r \in OfKind(heap, "Set"),
       lc \in Opt(Cardinalities), rc \in Opt(Cardinalities) :
        LET kwargs == ("left" :> l) @@ ("right" :> r) @@ ("op" :> "UNION")
                          @@ Arg("left_card", lc) @@ Arg("right_card", rc)
            out == SetOp_init(kwargs)
        IN  /\ Len(heap) < MaxSetOpNodes
            /\ heap' = Alloc(heap, out)
            /\ result' = [op |-> "NewSetOp", omitted |-> (lc = <<>> \/ rc = <<>>),
                          error |-> out.error, node |-> NodeOf(heap, out)]
            /\ UNCHANGED regions

NextSetOp == SetOpNewSet \/ NewSetOp

SpecSetOp == Init /\ [][NextSetOp]_vars

\* C6 (as claimed): both branch cardinalities are present on every SetOp node,
\* a construction that omits one fails instead of defaulting, and the merged
\* cardinality is the join of the two (ONE with MANY is MANY, ONE with ONE is ONE).
C6_SetOpCardinalities ==
    /\ CardJoin("ONE", "MANY") = "MANY"
    /\ CardJoin("ONE", "ONE") = "ONE"
    /\ \A i \in OfKind(heap, "SetOp") :
           /\ heap[i].left_card \in Cardinalities
           /\ heap[i].right_card \in Cardinalities
           /\ CardLeq(heap[i].left_card, CardJoin(heap[i].left_card, heap[i].right_card))
           /\ CardLeq(heap[i].right_card, CardJoin(heap[i].left_card, heap[i].right_card))
    /\ (result.op = "NewSetOp" /\ result.omitted) =>
           (result.error # "none" /\ result.node = NoneRef)

\* ---------------------------------------------------- Statement: operations

StmtNewSet ==
    \E sid \in Opt(1..MaxScopeId), e \in Opt(OfKind(heap, "Set")) :
        LET out == Set_init(Arg("path_scope_id", sid) @@ Arg("expr", e))
        IN  /\ Len(heap) < MaxStmtNodes
            /\ heap' = Alloc(heap, out)
            /\ result' = [op |-> "NewSet", error |-> out.error, node |-> NodeOf(heap, out)]
            /\ UNCHANGED regions

NewStatement ==
    \E e \in OfKind(heap, "Set"), fresh \in BOOLEAN,
       v \in Opt(ViewTypes), vs \in Opt(ViewTypes) :
        LET tree == IF fresh THEN new_scope_tree
                    ELSE attach_child(new_scope_tree, 1, TRUE)
            views == IF v = <<>> THEN <<>> ELSE ("test::View" :> v[1])
            view_shapes == IF vs = <<>> THEN <<>> ELSE (vs[1] :> <<>>)
            out == Statement_init(("expr" :> e) @@ ("scope_tree" :> tree)
                                  @@ ("views" :> views) @@ ("view_shapes" :> view_shapes))
        IN  /\ Len(heap) < MaxStmtNodes
            /\ heap' = Alloc(heap, out)
            /\ result' = [op |-> "NewStatement", error |-> out.error,
                          node |-> NodeOf(heap, out)]
            /\ UNCHANGED regions

NextStatement == StmtNewSet \/ NewStatement

SpecStatement == Init /\ [][NextStatement]_vars

\* C5 (as claimed): in every Statement, the path_scope_id of every Set
\* reachable from expr is the id of a node of scope_tree, and the type of every
\* view in views has an entry in view_shapes.
C5_StatementConsistent ==
    \A st \in OfKind(heap, "Statement") :
        /\ \A i \in ({heap[st].expr} \cup Reachable(heap, heap[st].expr))
                        \cap OfKind(heap, "Set") :
               heap[i].path_scope_id # NoneRef =>
                   heap[i].path_scope_id \in ScopeIds(heap[st].scope_tree)
        /\ \A name \in DOMAIN heap[st].views :
               heap[st].views[name] \in DOMAIN heap[st].view_shapes

\* --------------------------------------------------- comparison: operations

CmpNewConstant ==
    \E c \in Contexts :
        LET kwargs == ("value" :> "42") @@ ("stype" :> "std::int64") @@ ("context" :> c)
            out == BaseConstant_init("IntegerConstant", kwargs)
        IN  /\ Len(heap) < MaxCmpNodes
            /\ heap' = Alloc(heap, out)
            /\ result' = [op |-> "NewConstant", error |-> out.error,
                          node |-> NodeOf(heap, out)]
            /\ UNCHANGED regions

CmpNewUnaryOp ==
    \E e \in 1..Len(heap), c \in Contexts :
        LET out == UnaryOp_init(("expr" :> e) @@ ("op" :> "-") @@ ("context" :> c))
        IN  /\ Len(heap) < MaxCmpNodes
            /\ heap' = Alloc(heap, out)
            /\ result' = [op |-> "NewUnaryOp", error |-> out.error,
                          node |-> NodeOf(heap, out)]
            /\ UNCHANGED regions

Compare ==
    \E i \in 1..Len(heap), j \in 1..Len(heap) :
        /\ result' = [op |-> "Compare", error |-> "none", node |-> i, other |-> j,
                      equal |-> nodes_equal(heap, i, j)]
        /\ UNCHANGED <<heap, regions>>

NextCompare == CmpNewConstant \/ CmpNewUnaryOp \/ Compare

SpecCompare == Init /\ [][NextCompare]_vars

AttachChild ==
    \E p \in 1..Len(regions), fenced \in BOOLEAN :
        /\ Len(regions) < MaxRegions
        /\ regions' = attach_child(regions, p, fenced)
        /\ result' = [op |-> "AttachChild", error |-> "none"]
        /\ UNCHANGED heap

RegisterPath ==
    \E r \in 1..Len(regions), path \in PathIds :
        /\ regions' = attach_path(regions, r, path)
        /\ result' = [op |-> "RegisterPath", error |-> "none"]
        /\ UNCHANGED heap

MarkFenced ==
    \E r \in 1..Len(regions) :
        /\ regions' = mark_fenced(regions, r)
        /\ result' = [op |-> "MarkFenced", error |-> "none"]
        /\ UNCHANGED heap

ResolvePath ==
    \E r \in 1..Len(regions), path \in PathIds :
        /\ result' = [op |-> "ResolvePath", from |-> r, path |-> path,
                      error |-> resolve_path(regions, r, path).error]
        /\ UNCHANGED <<heap, regions>>

NextScope == AttachChild \/ RegisterPath \/ MarkFenced \/ ResolvePath

SpecScope == Init /\ [][NextScope]_vars

\* The path is attached somewhere, and only inside the subtree of g.
OnlyInside(tree, g, path) ==
    /\ \E q \in Subtree(tree, g) : path \in tree[q].paths
    /\ \A q \in 1..Len(tree) : path \in tree[q].paths => q \in Subtree(tree, g)

\* C7: a path attached only inside the subtree of a fenced region (that of a
\* GroupStmt is one), resolved from a region outside that subtree, raises
\* InvalidScopeConfiguration.
C7_FencedGroupPathsPrivate ==
    result.op = "ResolvePath" =>
        \A g \in 1..Len(regions) :
            (/\ regions[g].fenced
             /\ result.from \notin Subtree(regions, g)
             /\ OnlyInside(regions, g, result.path))
                => result.error = "InvalidScopeConfiguration"

\* A path attached only in a fenced region under the root, resolved from a
\* sibling region and refused.
C7_Witness ==
    /\ result.op = "ResolvePath"
    /\ result.error = "InvalidScopeConfiguration"
    /\ Len(regions) = 3
    /\ regions[2].fenced
    /\ regions[3].parent = 1
    /\ result.from = 3
    /\ OnlyInside(regions, 2, result.path)

====
